---- MODULE Spec2Model ----
(***************************************************************************)
(* A model of dap-decode: the usbmon line parser (parse_usbmon.py), the    *)
(* command registry and command base class (commands.py), the command      *)
(* decoders (general_commands.py, swj_commands.py, swd_commands.py,        *)
(* transfer_commands.py) and the request/response pairing loop of main().  *)
(*                                                                         *)
(* Conventions.                                                            *)
(*  - bytes are sequences of naturals in 0..255; a Python Optional is a    *)
(*    sequence of length 0 (None) or 1 (the value);                        *)
(*  - a call that may raise returns [exc |-> name, val |-> value]: exc is  *)
(*    "" when the call returns normally, else the Python exception class;  *)
(*  - text is a sequence of characters (strings of length 1).              *)
(*                                                                         *)
(* Specifications.                                                         *)
(*  - Spec: the pairing loop of main() over the events of a stream;        *)
(*  - SpecStream: usb_event_stream over input lines, then load_file on     *)
(*    the file it saved;                                                   *)
(*  - SpecInst: one command built by Decoder.decode_request, then          *)
(*    DapCommand.attach_response on it;                                    *)
(*  - SpecReg: Decoder construction from a list of classes, then look-ups. *)
(***************************************************************************)
EXTENDS Integers, Sequences, FiniteSets

VARIABLES
    \* main(): the pairing loop
    request,      \* Optional pending DapCommand (local `request` of main)
    output,       \* the commands printed so far, in order (snapshots at print time)
    pc,           \* "running", "done", or the exception that ended the program
    hist,         \* the events that passed the bulk_data_events filter, in order
    consumed,     \* number of events pulled from the event stream
    args_device,  \* Optional device filter (args.device)
    \* usb_event_stream() / load_file()
    lines,        \* the raw lines input() has returned so far
    delivered,    \* the events usb_event_stream has yielded, in order
    saved,        \* Optional --save file: the lines written to it, in order
    reported,     \* the lines reported as "UsbMonError"
    loaded,       \* Optional result of load_file on the saved file
    stream_pc,    \* "running", or the exception that escaped usb_event_stream
    \* one DapCommand instance (constructor, then attach_response)
    inst,         \* Optional DapCommand
    inst_exc,     \* "" or the exception the last call on the instance raised
    inst_in,      \* the payloads given to the constructor and to attach_response
    \* Decoder construction
    reg_commands, \* the descriptor list given to Decoder(...)
    reg_map,      \* Optional _cmd_id_map
    reg_lookups   \* number of look-ups made in the built registry

vars == <<request, output, pc, hist, consumed, args_device,
          lines, delivered, saved, reported, loaded, stream_pc,
          inst, inst_exc, inst_in,
          reg_commands, reg_map, reg_lookups>>

mainVars == <<request, output, pc, hist, consumed, args_device>>
streamVars == <<lines, delivered, saved, reported, loaded, stream_pc>>
instVars == <<inst, inst_exc, inst_in>>
regVars == <<reg_commands, reg_map, reg_lookups>>

----------------------------------------------------------------------------
(* Python values and helpers *)

None == <<>>
Some(v) == <<v>>

Ok(v) == [exc |-> "", val |-> v]
Raise(e) == [exc |-> e, val |-> <<>>]

Min(a, b) == IF a < b THEN a ELSE b

\* data[lo:hi] on bytes (0-based, hi exclusive, clipped to the length)
Slice(data, lo, hi) == SubSeq(data, lo + 1, Min(hi, Len(data)))

\* data[lo:]
SliceFrom(data, lo) == SubSeq(data, lo + 1, Len(data))

\* bit k of x (x & (1 << k) != 0)
Bit(x, k) == (x \div (2 ^ k)) % 2 = 1

\* Python integers are unbounded. An integer read from bytes is kept as its
\* base-256 digits, most significant first, without leading zeros (0 is <<>>);
\* Nat256 gives the number, for an integer of at most three digits.
Reverse(s) == [i \in 1..Len(s) |-> s[Len(s) + 1 - i]]

RECURSIVE Nat256(_)
Nat256(d) == IF d = <<>> THEN 0 ELSE Nat256(SubSeq(d, 1, Len(d) - 1)) * 256 + d[Len(d)]

\* d < n for an integer d of at most four digits and n below 2^31
Less(d, n) == IF Len(d) = 4 /\ d[1] >= 128 THEN FALSE ELSE Nat256(d) < n

\* int.from_bytes(data, byteorder="big"); b"" gives 0
RECURSIVE FromBytesBig(_)
FromBytesBig(data) ==
    IF data = <<>> THEN <<>>
    ELSE IF data[1] = 0 THEN FromBytesBig(Tail(data))
    ELSE data

\* int.from_bytes(data, byteorder="little")
FromBytesLittle(data) == FromBytesBig(Reverse(data))

\* struct.unpack_from(fmt, data, offset) for one little-endian integer of
\* `size` bytes: struct.error when the buffer is too short
UnpackFrom(size, data, offset) ==
    IF offset + size > Len(data) THEN Raise("struct.error")
    ELSE Ok(FromBytesLittle(Slice(data, offset, offset + size)))

\* struct.unpack(fmt, data): the buffer must have exactly the format's size;
\* `pad` leading pad bytes ("x"), then one little-endian integer
Unpack(pad, size, data) ==
    IF Len(data) # pad + size THEN Raise("struct.error")
    ELSE Ok(FromBytesLittle(SliceFrom(data, pad)))

----------------------------------------------------------------------------
(* commands.py: DapResponoseStatus *)

\* DapResponoseStatus.from_bytes(data): the big-endian integer of ALL the
\* bytes, which must be a member of the enumeration (Ok = 0x00, Error = 0xFF)
DapResponoseStatus_from_bytes(data) ==
    LET member(v) ==
          IF v = <<>> THEN Ok([t |-> "enum", name |-> "Ok"])
          ELSE IF v = <<255>> THEN Ok([t |-> "enum", name |-> "Error"])
          ELSE Raise("ValueError")
    IN member(FromBytesBig(data))

----------------------------------------------------------------------------
(* general_commands.py *)

\* str.decode(): strict UTF-8. Gives the code points, or UnicodeDecodeError.
IsCont(b) == b >= 128 /\ b <= 191

\* The first character of b: the number of bytes it takes and its code
\* point; n = 0 when b does not start with a well-formed UTF-8 sequence
Utf8First(b) ==
    LET b1 == b[1]
        n == Len(b) IN
    IF b1 < 128 THEN [n |-> 1, cp |-> b1]
    ELSE IF b1 >= 194 /\ b1 <= 223 THEN
        IF n >= 2 /\ IsCont(b[2])
        THEN [n |-> 2, cp |-> (b1 - 192) * 64 + (b[2] - 128)]
        ELSE [n |-> 0, cp |-> 0]
    ELSE IF b1 >= 224 /\ b1 <= 239 THEN
        IF /\ n >= 3
           /\ IsCont(b[2])
           /\ IsCont(b[3])
           /\ (b1 = 224 => b[2] >= 160)
           /\ (b1 = 237 => b[2] <= 159)
        THEN [n |-> 3, cp |-> (b1 - 224) * 4096 + (b[2] - 128) * 64 + (b[3] - 128)]
        ELSE [n |-> 0, cp |-> 0]
    ELSE IF b1 >= 240 /\ b1 <= 244 THEN
        IF /\ n >= 4
           /\ IsCont(b[2])
           /\ IsCont(b[3])
           /\ IsCont(b[4])
           /\ (b1 = 240 => b[2] >= 144)
           /\ (b1 = 244 => b[2] <= 143)
        THEN [n |-> 4, cp |-> (b1 - 240) * 262144 + (b[2] - 128) * 4096
                              + (b[3] - 128) * 64 + (b[4] - 128)]
        ELSE [n |-> 0, cp |-> 0]
    ELSE [n |-> 0, cp |-> 0]

RECURSIVE Utf8Decode(_, _)
Utf8Decode(b, acc) ==
    IF b = <<>> THEN Ok([t |-> "str", v |-> acc])
    ELSE LET c == Utf8First(b) IN
         IF c.n = 0 THEN Raise("UnicodeDecodeError")
         ELSE Utf8Decode(SliceFrom(b, c.n), Append(acc, c.cp))

\* Info.INFO_IDs: the keys
INFO_ID_KEYS == {1, 2, 3, 4, 5, 6, 7, 8, 9, 240, 241, 251, 252, 253, 254, 255}

\* Info.INFO_IDs[info_id][0]
INFO_LABEL(info_id) ==
    CASE info_id = 1 -> "Vendor name"
      [] info_id = 2 -> "Product name"
      [] info_id = 3 -> "Serial number"
      [] info_id = 4 -> "CMSIS-DAP Protocol version"
      [] info_id = 5 -> "Target device vendor"
      [] info_id = 6 -> "Target device name"
      [] info_id = 7 -> "Target board vendor"
      [] info_id = 8 -> "Target board name"
      [] info_id = 9 -> "Product firmware version"
      [] info_id = 240 -> "Capabilities"
      [] info_id = 241 -> "Test domain timer"
      [] info_id = 251 -> "UART receive buffer size"
      [] info_id = 252 -> "UART transmit buffer size"
      [] info_id = 253 -> "SWO trace buffer size"
      [] info_id = 254 -> "Maximum packet count"
      [] info_id = 255 -> "Maximum packet size"

\* Info.INFO_IDs[info_id][1](b)
INFO_DECODE(info_id, b) ==
    LET int(r) == IF r.exc # "" THEN r ELSE Ok([t |-> "int", v |-> r.val]) IN
    CASE info_id \in 1..9 -> Utf8Decode(b, <<>>)
      [] info_id = 240 -> Ok([t |-> "flag", v |-> FromBytesLittle(b)])
      [] info_id = 241 -> int(Unpack(1, 4, b))
      [] info_id \in {251, 252, 253} -> int(Unpack(0, 4, b))
      [] info_id = 254 -> int(Unpack(0, 1, b))
      [] info_id = 255 -> int(Unpack(0, 2, b))

\* The value of a Connect.Port member, by name
Port_from_value(v) ==
    CASE v = <<>> -> Ok([t |-> "enum", name |-> "Default"])
      [] v = <<1>> -> Ok([t |-> "enum", name |-> "SWD"])
      [] v = <<2>> -> Ok([t |-> "enum", name |-> "JTAG"])
      [] OTHER -> Raise("ValueError")

\* Connect.Port.from_bytes(data): big-endian (the default byte order)
Port_from_bytes(data) == Port_from_value(FromBytesBig(data))

Info_decode_request(data) ==
    IF Len(data) = 0 THEN Raise("IndexError")
    ELSE IF data[1] \notin INFO_ID_KEYS THEN Raise("KeyError")
    ELSE Ok([t |-> "str", label |-> INFO_LABEL(data[1])])

Info_decode_response(aux, data) ==
    IF Len(data) = 0 THEN Raise("IndexError")
    ELSE IF Len(SliceFrom(data, 1)) # data[1] THEN Raise("AssertionError")
    ELSE INFO_DECODE(aux.info_id, SliceFrom(data, 1))

HostStatus_decode_request(data) ==
    IF Len(data) = 0 THEN Raise("IndexError")
    ELSE Ok([t |-> "tuple",
             type |-> IF data[1] = 0 THEN "connect" ELSE "running",
             dir |-> IF data[1] = 0 THEN "off" ELSE "on"])

HostStatus_decode_response(data) ==
    IF Len(data) = 0 THEN Raise("IndexError")
    ELSE IF data[1] # 0 THEN Raise("AssertionError")
    ELSE Ok([t |-> "tuple"])

\* Connect.decode_request: `data` is the payload after the identifier byte,
\* and the port is read from data[1:2]
Connect_decode_request(data) == Port_from_bytes(Slice(data, 1, 2))

Connect_decode_response(data) ==
    IF Len(data) = 0 THEN Raise("IndexError")
    ELSE IF data[1] = 0 THEN Ok([t |-> "enum", name |-> "Error"])
    ELSE Port_from_bytes(data)

ResetTarget_decode_response(data) ==
    LET tuple(st) ==
          IF st.exc # "" THEN st
          ELSE IF Len(data) < 3 THEN Raise("IndexError")
          ELSE Ok([t |-> "tuple", status |-> st.val, execute |-> data[3]])
    IN tuple(DapResponoseStatus_from_bytes(Slice(data, 0, 1)))

----------------------------------------------------------------------------
(* swj_commands.py, swd_commands.py *)

\* SWJ_Clock.decode_request: the clock rate and the bucket it is rendered in;
\* the rendered digits ("%0.3f" of the scaled value) are a function of the two
SWJ_Clock_decode_request(data) ==
    LET render(r) ==
          IF r.exc # "" THEN r
          ELSE Ok([t |-> "clock",
                   clock_hz |-> r.val,
                   unit |-> IF Less(r.val, 1000) THEN "Hz"
                            ELSE IF Less(r.val, 1000000) THEN "kHz"
                            ELSE IF Less(r.val, 1000000000) THEN "MHz"
                            ELSE "GHz"])
    IN render(Unpack(0, 4, data))

SWD_Configure_decode_request(data) ==
    IF Len(data) = 0 THEN Raise("IndexError")
    ELSE Ok([t |-> "dict",
             turnaround |-> (data[1] % 4) + 1,
             data_phase |-> Bit(data[1], 2)])

SWD_Sequence_decode_response(data) ==
    LET result(st) ==
          IF Len(data) = 1 THEN st
          ELSE IF st.exc # "" THEN st
          ELSE Ok([t |-> "tuple", status |-> st.val, hex |-> SliceFrom(data, 1)])
    IN result(DapResponoseStatus_from_bytes(Slice(data, 0, 1)))

----------------------------------------------------------------------------
(* transfer_commands.py *)

TransferConfigure_decode_request(data) ==
    LET dict(idle, wait, match) ==
          IF idle.exc # "" THEN idle
          ELSE IF wait.exc # "" THEN wait
          ELSE IF match.exc # "" THEN match
          ELSE Ok([t |-> "dict", idle_cycles |-> Nat256(idle.val),
                   wait_retry |-> Nat256(wait.val),
                   match_retry |-> Nat256(match.val)])
    IN dict(UnpackFrom(1, data, 0), UnpackFrom(2, data, 1), UnpackFrom(2, data, 3))

\* xfer_req & 0xC
A32(xfer_req) == ((xfer_req \div 4) % 4) * 4

\* One Transfer record: what Transfer.decode_request appends to `decoded`
XferRecord(xfer_req, op, value) ==
    [ap |-> IF Bit(xfer_req, 0) THEN "AP" ELSE "DP",
     op |-> op,
     a32 |-> A32(xfer_req),
     value |-> value,
     ts |-> Bit(xfer_req, 6)]

\* Mutant: a read with a match mask is not counted in self.reads
TransferRecord_MaskNotCounted(data, offset) ==
    LET record(req, val) ==
          LET xfer_req == Nat256(req.val)
              read == Bit(xfer_req, 1)
              value_match == Bit(xfer_req, 4)
              mask_match == Bit(xfer_req, 5)
              ts == Bit(xfer_req, 6)
              fail(e, t) == [exc |-> e, rec |-> <<>>, offset |-> offset,
                             reads |-> 0, ts |-> t]
              with_value(op, reads) ==
                  IF val.exc # "" THEN fail(val.exc, ts)
                  ELSE [exc |-> "", rec |-> XferRecord(xfer_req, op, Some(val.val)),
                        offset |-> offset + 5, reads |-> reads, ts |-> ts]
          IN
          IF req.exc # "" THEN fail(req.exc, FALSE)
          ELSE IF ~read THEN with_value("write", 0)
          ELSE IF value_match THEN with_value("read value", 1)
          ELSE IF mask_match THEN with_value("read mask", 0)
          ELSE [exc |-> "", rec |-> XferRecord(xfer_req, "read", None),
                offset |-> offset + 1, reads |-> 1, ts |-> ts]
    IN record(UnpackFrom(1, data, offset), UnpackFrom(4, data, offset + 1))

\* One iteration of the loop of Transfer.decode_request, for the record at
\* `offset`: the exception raised ("" if none), the record appended to
\* `decoded`, the new offset, the increment of self.reads and whether the
\* record asks for a timestamp
TransferRecord(data, offset) ==
    LET record(req, val) ==
          LET xfer_req == Nat256(req.val)
              read == Bit(xfer_req, 1)
              value_match == Bit(xfer_req, 4)
              mask_match == Bit(xfer_req, 5)
              ts == Bit(xfer_req, 6)
              fail(e, t) == [exc |-> e, rec |-> <<>>, offset |-> offset,
                             reads |-> 0, ts |-> t]
              with_value(op, reads) ==
                  IF val.exc # "" THEN fail(val.exc, ts)
                  ELSE [exc |-> "", rec |-> XferRecord(xfer_req, op, Some(val.val)),
                        offset |-> offset + 5, reads |-> reads, ts |-> ts]
          IN
          IF req.exc # "" THEN fail(req.exc, FALSE)
          ELSE IF ~read THEN with_value("write", 0)
          ELSE IF value_match THEN with_value("read value", 1)
          ELSE IF mask_match THEN with_value("read mask", 1)
          ELSE [exc |-> "", rec |-> XferRecord(xfer_req, "read", None),
                offset |-> offset + 1, reads |-> 1, ts |-> ts]
    IN record(UnpackFrom(1, data, offset), UnpackFrom(4, data, offset + 1))

\* Mutant: self.timestamp is the timestamp bit of the last record only
RECURSIVE TransferLoop_LastTimestamp(_, _, _, _, _, _, _)
TransferLoop_LastTimestamp(data, i, xfer_count, offset, reads, timestamp, decoded) ==
    LET next(r) ==
          IF r.exc # ""
          THEN [exc |-> r.exc, val |-> <<>>, reads |-> reads, timestamp |-> r.ts]
          ELSE TransferLoop_LastTimestamp(data, i + 1, xfer_count, r.offset,
                                          reads + r.reads, r.ts, Append(decoded, r.rec))
    IN
    IF i >= xfer_count
    THEN [exc |-> "", val |-> decoded, reads |-> reads, timestamp |-> timestamp]
    ELSE next(TransferRecord(data, offset))

\* for i in range(xfer_count), from record i on. The state of the loop is
\* (offset, self.reads, self.timestamp, decoded).
RECURSIVE TransferLoop(_, _, _, _, _, _, _)
TransferLoop(data, i, xfer_count, offset, reads, timestamp, decoded) ==
    LET next(r) ==
          IF r.exc # ""
          THEN [exc |-> r.exc, val |-> <<>>, reads |-> reads,
                timestamp |-> timestamp \/ r.ts]
          ELSE TransferLoop(data, i + 1, xfer_count, r.offset, reads + r.reads,
                            timestamp \/ r.ts, Append(decoded, r.rec))
    IN
    IF i >= xfer_count
    THEN [exc |-> "", val |-> decoded, reads |-> reads, timestamp |-> timestamp]
    ELSE next(TransferRecord(data, offset))

\* Transfer.decode_request: the decoded list, and self.reads / self.timestamp
Transfer_decode_request(data) ==
    IF Len(data) < 2
    THEN [exc |-> "IndexError", val |-> <<>>, reads |-> 0, timestamp |-> FALSE]
    ELSE TransferLoop(data, 0, data[2], 2, 0, FALSE, <<[index |-> data[1]]>>)

\* The status string of a Transfer / TransferBlock response
XferStatus(last_xfer, with_mismatch) ==
    LET ack == last_xfer % 8 IN
    [ack |-> CASE ack = 7 -> "No-ack"
               [] ack = 4 -> "Fault"
               [] ack = 2 -> "Wait"
               [] ack = 1 -> "Ok"
               [] OTHER -> "???",
     error |-> Bit(last_xfer, 3),
     mismatch |-> with_mismatch /\ Bit(last_xfer, 4)]

\* for i in range(self.reads): unpack one "<I" at offset, offset += 4
RECURSIVE ReadValues(_, _, _, _)
ReadValues(data, offset, n, response) ==
    LET next(v) ==
          IF v.exc # "" THEN [exc |-> v.exc, val |-> <<>>, offset |-> offset]
          ELSE ReadValues(data, offset + 4, n - 1,
                          Append(response, [value |-> v.val]))
    IN
    IF n = 0 THEN [exc |-> "", val |-> response, offset |-> offset]
    ELSE next(UnpackFrom(4, data, offset))

\* Transfer.decode_response; `offset` is where decoding stopped
Transfer_decode_response(aux, data) ==
    IF Len(data) < 2 THEN [exc |-> "IndexError", val |-> <<>>, offset |-> 0]
    ELSE IF aux.timestamp THEN [exc |-> "AssertionError", val |-> <<>>, offset |-> 0]
    ELSE ReadValues(data, 2, aux.reads, <<XferStatus(data[2], TRUE)>>)

\* "<I" values of a write block, from `offset`
RECURSIVE BlockValues(_, _, _, _)
BlockValues(data, offset, n, values) ==
    LET next(v) ==
          IF v.exc # "" THEN v
          ELSE BlockValues(data, offset + 4, n - 1, Append(values, v.val))
    IN
    IF n = 0 THEN Ok(values)
    ELSE next(UnpackFrom(4, data, offset))

\* TransferBlock.decode_request: the decoded list and self.reads
TransferBlock_decode_request(data) ==
    LET fail(e) == [exc |-> e, val |-> <<>>, reads |-> 0]
        write_block(xfer_count, xfer_req, vals) ==
          IF vals.exc # "" THEN fail(vals.exc)
          ELSE [exc |-> "",
                val |-> << [index |-> data[1]],
                           [ap |-> IF Bit(xfer_req, 0) THEN "AP" ELSE "DP",
                            op |-> "write", count |-> xfer_count,
                            a32 |-> A32(xfer_req), values |-> vals.val] >>,
                reads |-> 0]
        block(count, req) ==
          IF Len(data) = 0 THEN fail("IndexError")
          ELSE IF count.exc # "" THEN fail(count.exc)
          ELSE IF req.exc # "" THEN fail(req.exc)
          ELSE IF ~Bit(Nat256(req.val), 1)
          THEN write_block(Nat256(count.val), Nat256(req.val),
                           BlockValues(data, 4, Nat256(count.val), <<>>))
          ELSE [exc |-> "",
                val |-> << [index |-> data[1]],
                           [ap |-> IF Bit(Nat256(req.val), 0) THEN "AP" ELSE "DP",
                            op |-> "read", count |-> Nat256(count.val),
                            a32 |-> A32(Nat256(req.val)), values |-> <<>>] >>,
                reads |-> Nat256(count.val)]
    IN block(UnpackFrom(2, data, 1), UnpackFrom(1, data, 3))

\* TransferBlock.decode_response; `offset` is where decoding stopped
TransferBlock_decode_response(aux, data) ==
    IF Len(data) < 2 THEN [exc |-> "struct.error", val |-> <<>>, offset |-> 0]
    ELSE IF Len(data) < 3 THEN [exc |-> "IndexError", val |-> <<>>, offset |-> 2]
    ELSE ReadValues(data, 3, aux.reads, <<XferStatus(data[3], FALSE)>>)

----------------------------------------------------------------------------
(* commands.py: DapCommand and Decoder *)

\* The command classes main() registers, in registration order
\* (general_commands, swj_commands, swd_commands, transfer_commands)
COMMANDS ==
    << [name |-> "Info", COMMAND_ID |-> 0],
       [name |-> "HostStatus", COMMAND_ID |-> 1],
       [name |-> "Connect", COMMAND_ID |-> 2],
       [name |-> "Disconnect", COMMAND_ID |-> 3],
       [name |-> "WriteABORT", COMMAND_ID |-> 8],
       [name |-> "Delay", COMMAND_ID |-> 9],
       [name |-> "ResetTarget", COMMAND_ID |-> 10],
       [name |-> "SWJ_Pins", COMMAND_ID |-> 16],
       [name |-> "SWJ_Clock", COMMAND_ID |-> 17],
       [name |-> "SWJ_Sequence", COMMAND_ID |-> 18],
       [name |-> "SWD_Configure", COMMAND_ID |-> 19],
       [name |-> "SWD_Sequence", COMMAND_ID |-> 29],
       [name |-> "TransferConfigure", COMMAND_ID |-> 4],
       [name |-> "Transfer", COMMAND_ID |-> 5],
       [name |-> "TransferBlock", COMMAND_ID |-> 6],
       [name |-> "TransferAbort", COMMAND_ID |-> 7] >>

\* The per-instance attributes the decoders set (self.reads, self.timestamp,
\* self.info_id). An attribute a class never sets is never read by that class;
\* it has a filler value here.
NoAux == [reads |-> 0, timestamp |-> FALSE, info_id |-> 0]

\* self.decode_request(data), dispatched on the class: the decoded request
\* and the attributes set on the instance
decode_request(name, data) ==
    LET plain(r) == [exc |-> r.exc, val |-> r.val, aux |-> NoAux]
        info(r) ==
          [exc |-> r.exc, val |-> r.val,
           aux |-> [NoAux EXCEPT !.info_id = IF Len(data) > 0 THEN data[1] ELSE 0]]
        transfer(r) ==
          [exc |-> r.exc, val |-> [t |-> "list", v |-> r.val],
           aux |-> [NoAux EXCEPT !.reads = r.reads, !.timestamp = r.timestamp]]
        block(r) ==
          [exc |-> r.exc, val |-> [t |-> "list", v |-> r.val],
           aux |-> [NoAux EXCEPT !.reads = r.reads]]
    IN
    CASE name = "Info" -> info(Info_decode_request(data))
      [] name = "HostStatus" -> plain(HostStatus_decode_request(data))
      [] name = "Connect" -> plain(Connect_decode_request(data))
      [] name = "SWJ_Clock" -> plain(SWJ_Clock_decode_request(data))
      [] name = "SWD_Configure" -> plain(SWD_Configure_decode_request(data))
      [] name = "TransferConfigure" -> plain(TransferConfigure_decode_request(data))
      [] name = "Transfer" -> transfer(Transfer_decode_request(data))
      [] name = "TransferBlock" -> block(TransferBlock_decode_request(data))
      \* DapCommand.decode_request: the bytes themselves
      [] OTHER -> plain(Ok([t |-> "bytes", v |-> data]))

\* self.decode_response(data), dispatched on the class
decode_response(self, data) ==
    LET plain(r) == [exc |-> r.exc, val |-> r.val]
        list(r) == [exc |-> r.exc, val |-> [t |-> "list", v |-> r.val]] IN
    CASE self.cls = "Info" -> plain(Info_decode_response(self.aux, data))
      [] self.cls = "HostStatus" -> HostStatus_decode_response(data)
      [] self.cls = "Connect" -> Connect_decode_response(data)
      [] self.cls \in {"Disconnect", "WriteABORT", "Delay", "SWJ_Clock",
                       "SWJ_Sequence", "SWD_Configure"} ->
           DapResponoseStatus_from_bytes(data)
      [] self.cls = "ResetTarget" -> ResetTarget_decode_response(data)
      [] self.cls = "SWD_Sequence" -> SWD_Sequence_decode_response(data)
      [] self.cls = "Transfer" -> list(Transfer_decode_response(self.aux, data))
      [] self.cls = "TransferBlock" ->
           list(TransferBlock_decode_response(self.aux, data))
      [] self.cls = "TransferAbort" -> Raise("AssertionError")
      \* DapCommand.decode_response: the bytes themselves
      [] OTHER -> Ok([t |-> "bytes", v |-> data])

\* DapCommand.__init__(self, data) of class cls: val is the new instance
DapCommand___init__(cls, data) ==
    LET instance(r) ==
          IF r.exc # "" THEN Raise(r.exc)
          ELSE Ok([cls |-> cls.name, COMMAND_ID |-> cls.COMMAND_ID,
                   data |-> r.val, response |-> None, aux |-> r.aux])
    IN
    IF Len(data) = 0 THEN Raise("IndexError")
    ELSE IF data[1] # cls.COMMAND_ID THEN Raise("AssertionError")
    ELSE instance(decode_request(cls.name, SliceFrom(data, 1)))

\* Mutant: the decoded response is not stored on the instance
attach_response_NotStored(self, data) ==
    IF Len(data) = 0 THEN Raise("IndexError")
    ELSE IF data[1] # self.COMMAND_ID THEN Raise("AssertionError")
    ELSE Ok(self)

\* DapCommand.attach_response(self, data): val is the instance afterwards
attach_response(self, data) ==
    LET attached(r) ==
          IF r.exc # "" THEN Raise(r.exc)
          ELSE Ok([self EXCEPT !.response = Some(r.val)])
    IN
    IF Len(data) = 0 THEN Raise("IndexError")
    ELSE IF data[1] # self.COMMAND_ID THEN Raise("AssertionError")
    ELSE attached(decode_response(self, SliceFrom(data, 1)))

\* DapCommand.__repr_data__(data) raises TypeError when it reaches an Enum
\* member whose name is None: an Info.Capabilities value with none of the nine
\* named bits set (enum.Flag gives such a value no name)
ReprDataRaises(data) ==
    /\ data.t = "flag"
    /\ LET n == Len(data.v) IN
       /\ (n >= 1 => data.v[n] = 0)
       /\ (n >= 2 => data.v[n - 1] % 2 = 0)

\* DapCommand.__repr__(self): the text is a function of the class name, the
\* decoded request and the decoded response, which val keeps
DapCommand___repr__(self) ==
    IF self.response # None /\ ReprDataRaises(self.response[1])
    THEN Raise("TypeError")
    ELSE Ok([cls |-> self.cls, data |-> self.data, response |-> self.response])

\* Decoder.__init__(*commands): the dict comprehension keeps, for each
\* COMMAND_ID, the last class of the list that has it
Decoder___init__(commands) ==
    LET ids == {commands[i].COMMAND_ID : i \in DOMAIN commands}
        last(id) == CHOOSE i \in DOMAIN commands :
                       /\ commands[i].COMMAND_ID = id
                       /\ \A j \in DOMAIN commands :
                            commands[j].COMMAND_ID = id => j <= i
    IN [id \in ids |-> commands[last(id)]]

\* Decoder.decode_request(self, data) with offset = 0
Decoder_decode_request(cmd_id_map, data) ==
    IF Len(data) = 0 THEN Raise("IndexError")
    ELSE IF data[1] \notin DOMAIN cmd_id_map THEN Raise("KeyError")
    ELSE DapCommand___init__(cmd_id_map[data[1]], data)

----------------------------------------------------------------------------
(* parse_usbmon.py: main() *)

\* Bounds of the model
MaxEvents == 3

\* UsbEvent.Type and UsbEvent.Direction values
Bulk == "B"
Control == "C"
In == "i"
Out == "o"

\* A UsbEvent: the dataclass fields
UsbEvent(urb_tag, timestamp, event_type, type, direction, bus, device, endpoint, status, length, data) ==
    [urb_tag |-> urb_tag, timestamp |-> timestamp, event_type |-> event_type,
     type |-> type, direction |-> direction, bus |-> bus, device |-> device,
     endpoint |-> endpoint, status |-> status, length |-> length, data |-> data]

\* Payloads the events of the model carry; each may come in either direction
Payloads ==
    { <<2, 1>>,            \* Connect: request (port SWD) or response (SWD)
      <<3>>,               \* Disconnect: request, or response Ok (no status byte)
      <<3, 5>>,            \* Disconnect response with an unexpected status
      <<85>>,              \* no command has identifier 0x55
      <<5, 0, 1, 66>>,     \* Transfer: one read that asks for a timestamp
      <<0, 240>>,          \* Info request: capabilities; as a response, a
                           \* length byte that does not match
      <<0, 1, 0>> }        \* Info response: one byte, no capability bit set

Devices == {1, 2}

\* The events the event stream may yield
Events ==
    { UsbEvent("tag", 0, "C", ty, dir, 1, dev, 1, "0",
               IF data = None THEN 0 ELSE Len(data[1]), data) :
        ty \in {Bulk, Control}, dir \in {In, Out}, dev \in Devices,
        data \in {None} \cup {Some(p) : p \in Payloads} }

\* decoder = Decoder(*general_commands.commands, ...)
decoder == Decoder___init__(COMMANDS)

\* The filter of the generator bulk_data_events
bulk_data_events(event, device) ==
    /\ event.type = Bulk
    /\ (IF device = None THEN TRUE ELSE event.device = device[1])
    /\ event.data # None

\* print(request): the text printed is appended to the output; __repr__ may raise
print_request(self, out) ==
    LET printed(r) ==
          IF r.exc # "" THEN [exc |-> r.exc, output |-> out]
          ELSE [exc |-> "", output |-> Append(out, r.val)]
    IN printed(DapCommand___repr__(self))

\* Mutant: a pending request is not printed when the next request arrives
MainLoopBody_NoFlush(req, out, event) ==
    LET respond(a) ==
          IF a.exc # "" THEN [request |-> req, output |-> out, exc |-> a.exc]
          ELSE LET after(p) ==
                     IF p.exc # ""
                     THEN [request |-> Some(a.val), output |-> out, exc |-> p.exc]
                     ELSE [request |-> None, output |-> p.output, exc |-> ""]
               IN after(print_request(a.val, out))
        decode(first) ==
          IF first.exc # "" THEN first
          ELSE IF event.direction = Out
          THEN LET assign(d) ==
                     IF d.exc # "" THEN [first EXCEPT !.exc = d.exc]
                     ELSE [first EXCEPT !.request = Some(d.val)]
               IN assign(Decoder_decode_request(decoder, event.data[1]))
          ELSE first
    IN
    decode(IF req # None /\ event.direction = In
           THEN respond(attach_response(req[1], event.data[1]))
           ELSE [request |-> req, output |-> out, exc |-> ""])

\* Mutant: the body does not test `request is not None`: an inbound event
\* with no pending request calls attach_response on None
MainLoopBody_NoPendingCheck(req, out, event) ==
    LET respond(a) ==
          IF a.exc # "" THEN [request |-> req, output |-> out, exc |-> a.exc]
          ELSE LET after(p) ==
                     IF p.exc # ""
                     THEN [request |-> Some(a.val), output |-> out, exc |-> p.exc]
                     ELSE [request |-> None, output |-> p.output, exc |-> ""]
               IN after(print_request(a.val, out))
        flush(p) == [request |-> req, output |-> p.output, exc |-> p.exc]
        decode(first) ==
          IF first.exc # "" THEN first
          ELSE IF event.direction = Out
          THEN LET assign(d) ==
                     IF d.exc # "" THEN [first EXCEPT !.exc = d.exc]
                     ELSE [first EXCEPT !.request = Some(d.val)]
               IN assign(Decoder_decode_request(decoder, event.data[1]))
          ELSE first
    IN
    decode(IF req # None
           THEN IF event.direction = Out
                THEN flush(print_request(req[1], out))
                ELSE respond(attach_response(req[1], event.data[1]))
           ELSE IF event.direction = In
           THEN [request |-> req, output |-> out, exc |-> "AttributeError"]
           ELSE [request |-> req, output |-> out, exc |-> ""])

\* The body of `for event in bulk_data_events`, for one event: the values of
\* request, the output and the exception that ended the program ("" if none)
MainLoopBody(req, out, event) ==
    LET \* request.attach_response(event.data); print(request); request = None
        respond(a) ==
          IF a.exc # "" THEN [request |-> req, output |-> out, exc |-> a.exc]
          ELSE LET after(p) ==
                     IF p.exc # ""
                     THEN [request |-> Some(a.val), output |-> out, exc |-> p.exc]
                     ELSE [request |-> None, output |-> p.output, exc |-> ""]
               IN after(print_request(a.val, out))
        \* print(request)
        flush(p) == [request |-> req, output |-> p.output, exc |-> p.exc]
        \* if event.direction == Out: request = decoder.decode_request(event.data)
        decode(first) ==
          IF first.exc # "" THEN first
          ELSE IF event.direction = Out
          THEN LET assign(d) ==
                     IF d.exc # "" THEN [first EXCEPT !.exc = d.exc]
                     ELSE [first EXCEPT !.request = Some(d.val)]
               IN assign(Decoder_decode_request(decoder, event.data[1]))
          ELSE first
    IN
    decode(IF req # None
           THEN IF event.direction = Out
                THEN flush(print_request(req[1], out))
                ELSE respond(attach_response(req[1], event.data[1]))
           ELSE [request |-> req, output |-> out, exc |-> ""])

\* main() up to the loop: request = None, nothing printed; the device filter
\* is the optional positional argument
Init ==
    /\ request = None
    /\ output = <<>>
    /\ pc = "running"
    /\ hist = <<>>
    /\ consumed = 0
    /\ args_device \in {None, Some(1)}
    /\ lines = <<>>
    /\ delivered = <<>>
    /\ saved = None
    /\ reported = <<>>
    /\ loaded = None
    /\ stream_pc = "idle"
    /\ inst = None
    /\ inst_exc = ""
    /\ inst_in = <<>>
    /\ reg_commands = <<>>
    /\ reg_map = None
    /\ reg_lookups = 0

\* An event the filter drops: the loop body does not run
FilteredOut(event) ==
    /\ pc = "running"
    /\ consumed < MaxEvents
    /\ ~bulk_data_events(event, args_device)
    /\ consumed' = consumed + 1
    /\ UNCHANGED <<request, output, pc, hist, args_device>>
    /\ UNCHANGED <<streamVars, instVars, regVars>>

\* One iteration of the loop, for an event that passes the filter
LoopIteration(event) ==
    /\ pc = "running"
    /\ consumed < MaxEvents
    /\ bulk_data_events(event, args_device)
    /\ LET assign(r) ==
             /\ request' = r.request
             /\ output' = r.output
             /\ pc' = IF r.exc = "" THEN "running" ELSE r.exc
       IN assign(MainLoopBody(request, output, event))
    /\ hist' = Append(hist, event)
    /\ consumed' = consumed + 1
    /\ UNCHANGED args_device
    /\ UNCHANGED <<streamVars, instVars, regVars>>

\* An outbound event that passes the filter
OutboundEvent == \E event \in Events : event.direction = Out /\ LoopIteration(event)

\* An inbound event that passes the filter
InboundEvent == \E event \in Events : event.direction = In /\ LoopIteration(event)

\* An event of another kind, without data, or of a device filtered out
IgnoredEvent == \E event \in Events : FilteredOut(event)

\* Mutant: a request still pending when the stream ends is printed
EndOfStream_FlushPending ==
    /\ pc = "running"
    /\ pc' \in {"done", "EOFError"}
    /\ output' = IF request = None THEN output
                 ELSE print_request(request[1], output).output
    /\ UNCHANGED <<request, hist, consumed, args_device>>
    /\ UNCHANGED <<streamVars, instVars, regVars>>

\* The event stream ends: load_file returns at the end of the file and the
\* loop ends; usb_event_stream's input() raises EOFError at the end of stdin
EndOfStream ==
    /\ pc = "running"
    /\ pc' \in {"done", "EOFError"}
    /\ UNCHANGED <<request, output, hist, consumed, args_device>>
    /\ UNCHANGED <<streamVars, instVars, regVars>>

Next == OutboundEvent \/ InboundEvent \/ IgnoredEvent \/ EndOfStream

Spec == Init /\ [][Next]_vars

----------------------------------------------------------------------------
(* Properties of the pairing loop (specification Spec) *)

\* The loop body raised: the program ended with a traceback
Crashed == pc \notin {"running", "done", "EOFError"}

\* The device of the last outbound event of h (the event that created the
\* pending request, when there is one); 0 if h has no outbound event
RECURSIVE LastOutDevice(_)
LastOutDevice(h) ==
    IF h = <<>> THEN 0
    ELSE IF h[Len(h)].direction = Out THEN h[Len(h)].device
    ELSE LastOutDevice(SubSeq(h, 1, Len(h) - 1))

C2_OutboundStep ==
    (Len(hist') = Len(hist) + 1 /\ hist'[Len(hist')].direction = Out)
    => LET restart(d) ==
             IF d.exc = ""
             THEN request' = Some(d.val) /\ pc' = "running"
             ELSE request' = request /\ pc' = d.exc
       IN /\ output' = IF request # None
                       THEN Append(output, [cls |-> request[1].cls,
                                            data |-> request[1].data,
                                            response |-> None])
                       ELSE output
          /\ restart(Decoder_decode_request(decoder, hist'[Len(hist')].data[1]))

C2_Preemption == [][C2_OutboundStep]_vars

\* C2 witness: two outbound events in a row; the first command was printed
\* without a response and the second is pending
C2_Witness ==
    /\ Len(hist) = 2
    /\ hist[1].direction = Out
    /\ hist[2].direction = Out
    /\ Len(output) = 1
    /\ output[1].response = None
    /\ request # None
    /\ request[1].cls # output[1].cls
    /\ pc = "running"

\* C3: pairing state is kept per device: while a command of one device is
\* pending, an event of another device neither attaches a response to it nor
\* prints it nor replaces it.
C3_OtherDeviceStep ==
    ( /\ Len(hist') = Len(hist) + 1
      /\ request # None
      /\ hist'[Len(hist')].device # LastOutDevice(hist) )
    => (request' = request /\ output' = output)

C3_PerDevicePairing == [][C3_OtherDeviceStep]_vars

\* C5: a payload that fails to decode does not end the program: the loop goes
\* on with the next event.
C5_DecodeFailuresAreLocal ==
    pc \notin {"KeyError", "AssertionError", "ValueError", "IndexError",
               "struct.error", "UnicodeDecodeError"}

\* C11: when no request is pending, an inbound event that passes the filter
\* is discarded: nothing is printed, the program goes on, and no request is
\* pending afterwards; an outbound event that finds no request pending (also
\* after such orphans) prints nothing and its command becomes the pending one.
C11_IdleStep ==
    (Len(hist') = Len(hist) + 1 /\ request = None)
    => LET event == hist'[Len(hist')]
           start(d) ==
             IF d.exc = ""
             THEN request' = Some(d.val) /\ pc' = "running"
             ELSE request' = None /\ pc' = d.exc
       IN IF event.direction = In
          THEN request' = None /\ output' = output /\ pc' = "running"
          ELSE output' = output /\ start(Decoder_decode_request(decoder, event.data[1]))

C11_OrphanResponse == [][C11_IdleStep]_vars

\* C11 witness: an orphan inbound event, then an outbound event whose
\* command is pending, nothing printed
C11_Witness ==
    /\ Len(hist) = 2
    /\ hist[1].direction = In
    /\ hist[2].direction = Out
    /\ output = <<>>
    /\ request # None
    /\ pc = "running"

\* The outbound events of h, in order
OutboundOf(h) ==
    LET IsOut(e) == e.direction = Out IN SelectSeq(h, IsOut)

\* C12: as long as no payload failed to decode or print, the commands
\* printed so far are the commands of the outbound events processed so far,
\* each once and in order, except the last one while it is pending; the
\* pending command is that of the last outbound event, and it stays
\* unprinted when the stream ends.
C12_EmissionAccounting ==
    ~Crashed =>
        LET outs == OutboundOf(hist)
            same(c, d) == d.exc = "" /\ c.cls = d.val.cls /\ c.data = d.val.data
        IN /\ Len(output) = IF request = None THEN Len(outs) ELSE Len(outs) - 1
           /\ \A i \in 1..Len(output) :
                 same(output[i], Decoder_decode_request(decoder, outs[i].data[1]))
           /\ request # None =>
                 /\ Len(outs) >= 1
                 /\ request[1].response = None
                 /\ same(request[1],
                         Decoder_decode_request(decoder, outs[Len(outs)].data[1]))

\* C12 witness: the stream ended after a paired request and a second
\* request, which is still pending and was not printed
C12_Witness ==
    /\ pc \in {"done", "EOFError"}
    /\ Len(hist) = 3
    /\ hist[1].direction = Out
    /\ hist[2].direction = In
    /\ hist[3].direction = Out
    /\ Len(output) = 1
    /\ output[1].response # None
    /\ request # None


----------------------------------------------------------------------------
(* parse_usbmon.py: UsbEvent.from_usbmon *)

\* A line is a sequence of characters (strings of length 1). input() strips
\* the newline, so "." matches every character of a line.
Whitespace == {" ", "\t"}
DecDigits == {"0", "1", "2", "3", "4", "5", "6", "7", "8", "9"}

DigitVal(c) ==
    CASE c = "0" -> 0 [] c = "1" -> 1 [] c = "2" -> 2 [] c = "3" -> 3
      [] c = "4" -> 4 [] c = "5" -> 5 [] c = "6" -> 6 [] c = "7" -> 7
      [] c = "8" -> 8 [] c = "9" -> 9
      [] c \in {"a", "A"} -> 10 [] c \in {"b", "B"} -> 11
      [] c \in {"c", "C"} -> 12 [] c \in {"d", "D"} -> 13
      [] c \in {"e", "E"} -> 14 [] c \in {"f", "F"} -> 15
      [] OTHER -> 16

\* UsbEvent._USBMON_RE up to the data tag: the items of the pattern in order,
\* each a character class, whether it is repeated (+), and its group name
USBMON_RE ==
    << [cls |-> "S", plus |-> TRUE, cap |-> "urb_tag"],
       [cls |-> "s", plus |-> TRUE, cap |-> ""],
       [cls |-> "S", plus |-> TRUE, cap |-> "timestamp"],
       [cls |-> "s", plus |-> TRUE, cap |-> ""],
       [cls |-> "S", plus |-> TRUE, cap |-> "event_type"],
       [cls |-> "s", plus |-> TRUE, cap |-> ""],
       [cls |-> ".", plus |-> FALSE, cap |-> "urb_type"],
       [cls |-> ".", plus |-> FALSE, cap |-> "urb_direction"],
       [cls |-> ":", plus |-> FALSE, cap |-> ""],
       [cls |-> "d", plus |-> TRUE, cap |-> "bus_number"],
       [cls |-> ":", plus |-> FALSE, cap |-> ""],
       [cls |-> "d", plus |-> TRUE, cap |-> "device_address"],
       [cls |-> ":", plus |-> FALSE, cap |-> ""],
       [cls |-> "d", plus |-> TRUE, cap |-> "endpoint_number"],
       [cls |-> "s", plus |-> TRUE, cap |-> ""],
       [cls |-> "S", plus |-> TRUE, cap |-> "urb_status"],
       [cls |-> "s", plus |-> TRUE, cap |-> ""],
       [cls |-> "S", plus |-> TRUE, cap |-> "data_length"],
       [cls |-> "s", plus |-> TRUE, cap |-> ""],
       [cls |-> "S", plus |-> TRUE, cap |-> "data_tag"] >>

ClassHas(cls, c) ==
    CASE cls = "S" -> c \notin Whitespace
      [] cls = "s" -> c \in Whitespace
      [] cls = "d" -> c \in DecDigits
      [] cls = ":" -> c = ":"
      [] cls = "." -> TRUE

\* The number of characters of line from pos on that are in the class
RECURSIVE RunLength(_, _, _)
RunLength(cls, line, pos) ==
    IF pos > Len(line) THEN 0
    ELSE IF ~ClassHas(cls, line[pos]) THEN 0
    ELSE 1 + RunLength(cls, line, pos + 1)

NoMatch == [ok |-> FALSE, groups |-> <<>>]

\* The optional last group (\s+ (?P<data>.+))? at pos: greedy, and it gives
\* back one whitespace character when nothing else is left for ".+"
DataGroup(line, pos) ==
    LET w == RunLength("s", line, pos)
        left == Len(line) - pos + 1 IN
    IF w >= 1 /\ left > w THEN Some(SubSeq(line, pos + w, Len(line)))
    ELSE IF w >= 2 THEN Some(SubSeq(line, Len(line), Len(line)))
    ELSE None

\* Backtracking match of the items k.. of the pattern at pos; groups are the
\* named groups matched so far. MatchPlus tries the longest repetition first.
RECURSIVE MatchFrom(_, _, _, _)
RECURSIVE MatchPlus(_, _, _, _, _)
MatchFrom(k, line, pos, groups) ==
    IF k > Len(USBMON_RE)
    THEN [ok |-> TRUE, groups |-> [groups EXCEPT !.data = DataGroup(line, pos)]]
    ELSE IF USBMON_RE[k].plus
    THEN MatchPlus(k, line, pos, groups, RunLength(USBMON_RE[k].cls, line, pos))
    ELSE IF pos > Len(line) THEN NoMatch
    ELSE IF ~ClassHas(USBMON_RE[k].cls, line[pos]) THEN NoMatch
    ELSE MatchFrom(k + 1, line, pos + 1,
                   IF USBMON_RE[k].cap = "" THEN groups
                   ELSE [groups EXCEPT ![USBMON_RE[k].cap] = <<line[pos]>>])

MatchPlus(k, line, pos, groups, n) ==
    LET try(r) == IF r.ok THEN r ELSE MatchPlus(k, line, pos, groups, n - 1) IN
    IF n < 1 THEN NoMatch
    ELSE try(MatchFrom(k + 1, line, pos + n,
                       IF USBMON_RE[k].cap = "" THEN groups
                       ELSE [groups EXCEPT ![USBMON_RE[k].cap] =
                                              SubSeq(line, pos, pos + n - 1)]))

GroupNames ==
    {"urb_tag", "timestamp", "event_type", "urb_type", "urb_direction",
     "bus_number", "device_address", "endpoint_number", "urb_status",
     "data_length", "data_tag", "data"}

\* cls._USBMON_RE.match(usbmon_line): the match starts at the first character
USBMON_RE_match(line) == MatchFrom(1, line, 1, [g \in GroupNames |-> <<>>])

\* int(text) for text without whitespace: an optional sign, then decimal
\* digits, single underscores allowed between digits
RECURSIVE IntDigits(_, _, _)
IntDigits(text, acc, after_digit) ==
    IF text = <<>> THEN IF after_digit THEN Ok(acc) ELSE Raise("ValueError")
    ELSE IF text[1] \in DecDigits
    THEN IntDigits(Tail(text), acc * 10 + DigitVal(text[1]), TRUE)
    ELSE IF text[1] = "_" /\ after_digit THEN IntDigits(Tail(text), acc, FALSE)
    ELSE Raise("ValueError")

PyInt(text) ==
    LET negate(r) == IF r.exc # "" THEN r ELSE Ok(0 - r.val) IN
    IF text = <<>> THEN Raise("ValueError")
    ELSE IF text[1] = "-" THEN negate(IntDigits(Tail(text), 0, FALSE))
    ELSE IF text[1] = "+" THEN IntDigits(Tail(text), 0, FALSE)
    ELSE IntDigits(text, 0, FALSE)

\* bytes.fromhex(text): ASCII whitespace is skipped between bytes; each byte
\* is two adjacent hexadecimal digits
RECURSIVE FromHex(_, _)
FromHex(text, acc) ==
    IF text = <<>> THEN Ok(acc)
    ELSE IF text[1] \in Whitespace THEN FromHex(Tail(text), acc)
    ELSE IF Len(text) < 2 THEN Raise("ValueError")
    ELSE IF DigitVal(text[1]) > 15 \/ DigitVal(text[2]) > 15 THEN Raise("ValueError")
    ELSE FromHex(SubSeq(text, 3, Len(text)),
                 Append(acc, DigitVal(text[1]) * 16 + DigitVal(text[2])))

\* UsbEvent.Type(value) and UsbEvent.Direction(value)
UsbEvent_Type(text) ==
    IF text \in {<<"C">>, <<"Z">>, <<"I">>, <<"B">>} THEN Ok(text[1])
    ELSE Raise("ValueError")

UsbEvent_Direction(text) ==
    IF text \in {<<"i">>, <<"o">>} THEN Ok(text[1]) ELSE Raise("ValueError")

\* The data argument: bytes.fromhex(event["data"]) if the data tag is "=";
\* event["data"] is None when the optional group did not match
EventData(g) ==
    LET some(r) == IF r.exc # "" THEN r ELSE Ok(Some(r.val)) IN
    IF g.data_tag # <<"=">> THEN Ok(None)
    ELSE IF g.data = None THEN Raise("TypeError")
    ELSE some(FromHex(g.data[1], <<>>))

\* UsbEvent.from_usbmon(usbmon_line): val is an Optional UsbEvent. The
\* arguments of UsbEvent(...) are evaluated in order; the first that raises
\* ends the call.
UsbEvent_from_usbmon(usbmon_line) ==
    LET build(g, timestamp, type, direction, bus, device, endpoint, length, data) ==
          IF timestamp.exc # "" THEN Raise(timestamp.exc)
          ELSE IF type.exc # "" THEN Raise(type.exc)
          ELSE IF direction.exc # "" THEN Raise(direction.exc)
          ELSE IF bus.exc # "" THEN Raise(bus.exc)
          ELSE IF device.exc # "" THEN Raise(device.exc)
          ELSE IF endpoint.exc # "" THEN Raise(endpoint.exc)
          ELSE IF length.exc # "" THEN Raise(length.exc)
          ELSE IF data.exc # "" THEN Raise(data.exc)
          ELSE Ok(Some(UsbEvent(g.urb_tag, timestamp.val, g.event_type, type.val,
                                direction.val, bus.val, device.val, endpoint.val,
                                g.urb_status, length.val, data.val)))
        event(g) ==
          IF g.urb_status = <<"s">> THEN Ok(None)
          ELSE build(g, PyInt(g.timestamp), UsbEvent_Type(g.urb_type),
                     UsbEvent_Direction(g.urb_direction), PyInt(g.bus_number),
                     PyInt(g.device_address), PyInt(g.endpoint_number),
                     PyInt(g.data_length), EventData(g))
        matched(m) == IF ~m.ok THEN Raise("UsbMonError") ELSE event(m.groups)
    IN matched(USBMON_RE_match(usbmon_line))


----------------------------------------------------------------------------
(* parse_usbmon.py: repr(event) as written to the --save file, and eval(line)
   as load_file reads it back. The text of a saved line is kept per field:
   the call syntax and the keywords are constant, the literal of each field
   is a sequence of characters. *)

\* The character of code 96, written by name: inside a string the parser
\* reads a backtick as the start of a quotation
Grave == "grave accent"

\* The printable ASCII characters, codes 32..126
Ascii ==
    << " ", "!", "\"", "#", "$", "%", "&", "'", "(", ")", "*", "+", ",", "-", ".", "/",
       "0", "1", "2", "3", "4", "5", "6", "7", "8", "9", ":", ";", "<", "=", ">", "?",
       "@", "A", "B", "C", "D", "E", "F", "G", "H", "I", "J", "K", "L", "M", "N", "O",
       "P", "Q", "R", "S", "T", "U", "V", "W", "X", "Y", "Z", "[", "\\", "]", "^", "_",
       Grave, "a", "b", "c", "d", "e", "f", "g", "h", "i", "j", "k", "l", "m", "n", "o",
       "p", "q", "r", "s", "t", "u", "v", "w", "x", "y", "z", "{", "|", "}", "~" >>

HexChars ==
    <<"0", "1", "2", "3", "4", "5", "6", "7", "8", "9", "a", "b", "c", "d", "e", "f">>

Range(s) == {s[i] : i \in 1..Len(s)}

RECURSIVE Flatten(_)
Flatten(ss) == IF ss = <<>> THEN <<>> ELSE ss[1] \o Flatten(Tail(ss))

\* The code of a printable character
Ord(c) == 31 + (CHOOSE i \in 1..Len(Ascii) : Ascii[i] = c)

\* repr(n) of an int
RECURSIVE ReprNat(_)
ReprNat(n) == IF n < 10 THEN <<HexChars[n + 1]>> ELSE Append(ReprNat(n \div 10), HexChars[(n % 10) + 1])

ReprInt(n) == IF n < 0 THEN <<"-">> \o ReprNat(0 - n) ELSE ReprNat(n)

\* eval of an int literal: decimal digits, a leading zero only in zero itself
EvalInt(text) ==
    LET lit(r) == IF r.exc # "" THEN Raise("SyntaxError")
                  ELSE IF Len(text) > 1 /\ r.val # 0 /\ (text[1] = "0" \/ (text[1] = "-" /\ text[2] = "0"))
                  THEN Raise("SyntaxError")
                  ELSE r
    IN lit(PyInt(text))

\* repr(s) of a str of printable characters: single quotes unless s has a
\* single quote and no double quote; the quote and the backslash are escaped
ReprStr(s) ==
    LET quote == IF "'" \in Range(s) /\ "\"" \notin Range(s) THEN "\"" ELSE "'"
        esc(c) == IF c = "\\" \/ c = quote THEN <<"\\", c>> ELSE <<c>>
    IN <<quote>> \o Flatten([i \in 1..Len(s) |-> esc(s[i])]) \o <<quote>>

\* The characters of a str literal after its opening quote
RECURSIVE UnescapeStr(_, _, _)
UnescapeStr(text, quote, acc) ==
    IF text = <<>> THEN Raise("SyntaxError")
    ELSE IF text[1] = quote THEN IF Len(text) = 1 THEN Ok(acc) ELSE Raise("SyntaxError")
    ELSE IF text[1] # "\\" THEN UnescapeStr(Tail(text), quote, Append(acc, text[1]))
    ELSE IF Len(text) < 2 THEN Raise("SyntaxError")
    ELSE UnescapeStr(SubSeq(text, 3, Len(text)), quote,
                     IF text[2] \in {"\\", "'", "\""} THEN Append(acc, text[2])
                     ELSE IF text[2] = "t" THEN Append(acc, "\t")
                     ELSE acc \o <<"\\", text[2]>>)

EvalStr(text) ==
    IF Len(text) < 2 THEN Raise("SyntaxError")
    ELSE IF text[1] \notin {"'", "\""} THEN Raise("SyntaxError")
    ELSE UnescapeStr(Tail(text), text[1], <<>>)

\* repr(b) of bytes
ReprBytes(b) ==
    LET quote == IF 39 \in Range(b) /\ 34 \notin Range(b) THEN 34 ELSE 39
        esc(n) == IF n = 92 \/ n = quote THEN <<"\\", Ascii[n - 31]>>
                  ELSE IF n = 9 THEN <<"\\", "t">>
                  ELSE IF n = 10 THEN <<"\\", "n">>
                  ELSE IF n = 13 THEN <<"\\", "r">>
                  ELSE IF n >= 32 /\ n <= 126 THEN <<Ascii[n - 31]>>
                  ELSE <<"\\", "x", HexChars[(n \div 16) + 1], HexChars[(n % 16) + 1]>>
    IN <<"b", Ascii[quote - 31]>> \o Flatten([i \in 1..Len(b) |-> esc(b[i])]) \o <<Ascii[quote - 31]>>

\* The bytes of a bytes literal after its opening quote
RECURSIVE UnescapeBytes(_, _, _)
UnescapeBytes(text, quote, acc) ==
    IF text = <<>> THEN Raise("SyntaxError")
    ELSE IF text[1] = quote THEN IF Len(text) = 1 THEN Ok(acc) ELSE Raise("SyntaxError")
    ELSE IF text[1] # "\\" THEN UnescapeBytes(Tail(text), quote, Append(acc, Ord(text[1])))
    ELSE IF Len(text) < 2 THEN Raise("SyntaxError")
    ELSE IF text[2] = "x"
    THEN IF Len(text) < 4 THEN Raise("SyntaxError")
         ELSE IF DigitVal(text[3]) > 15 \/ DigitVal(text[4]) > 15 THEN Raise("SyntaxError")
         ELSE UnescapeBytes(SubSeq(text, 5, Len(text)), quote,
                            Append(acc, DigitVal(text[3]) * 16 + DigitVal(text[4])))
    ELSE UnescapeBytes(SubSeq(text, 3, Len(text)), quote,
                       IF text[2] \in {"\\", "'", "\""} THEN Append(acc, Ord(text[2]))
                       ELSE IF text[2] = "t" THEN Append(acc, 9)
                       ELSE IF text[2] = "n" THEN Append(acc, 10)
                       ELSE IF text[2] = "r" THEN Append(acc, 13)
                       ELSE acc \o <<92, Ord(text[2])>>)

EvalBytes(text) ==
    IF Len(text) < 3 THEN Raise("SyntaxError")
    ELSE IF text[1] # "b" \/ text[2] \notin {"'", "\""} THEN Raise("SyntaxError")
    ELSE UnescapeBytes(SubSeq(text, 3, Len(text)), text[2], <<>>)

NoneText == <<"N", "o", "n", "e">>

\* StrEnumEvalRepr.__repr__: the class name applied to the str literal of
\* the value
StrEnumEvalRepr___repr__(name, value) == [call |-> name, arg |-> ReprStr(<<value>>)]

\* repr(event) of an Optional UsbEvent: "None", or the dataclass repr with
\* the repr of each field
UsbEvent___repr__(event) ==
    IF event = None THEN [expr |-> "None"]
    ELSE LET e == event[1] IN
         [expr |-> "UsbEvent",
          urb_tag |-> ReprStr(e.urb_tag),
          timestamp |-> ReprInt(e.timestamp),
          event_type |-> ReprStr(e.event_type),
          type |-> StrEnumEvalRepr___repr__("UsbEvent.Type", e.type),
          direction |-> StrEnumEvalRepr___repr__("UsbEvent.Direction", e.direction),
          bus |-> ReprInt(e.bus),
          device |-> ReprInt(e.device),
          endpoint |-> ReprInt(e.endpoint),
          status |-> ReprStr(e.status),
          length |-> ReprInt(e.length),
          data |-> IF e.data = None THEN NoneText ELSE ReprBytes(e.data[1])]

\* eval of the literal of the data field
EvalData(text) ==
    LET some(r) == IF r.exc # "" THEN r ELSE Ok(Some(r.val)) IN
    IF text = NoneText THEN Ok(None) ELSE some(EvalBytes(text))

\* eval of UsbEvent.Type('...') and UsbEvent.Direction('...')
EvalEnum(text) ==
    LET make(r) == IF r.exc # "" THEN r
                   ELSE IF text.call = "UsbEvent.Type" THEN UsbEvent_Type(r.val)
                   ELSE UsbEvent_Direction(r.val)
    IN make(EvalStr(text.arg))

\* eval(line) of a saved line: val is an Optional UsbEvent
eval(line) ==
    LET build(urb_tag, timestamp, event_type, type, direction, bus, device, endpoint, status, length, data) ==
          IF urb_tag.exc # "" THEN Raise(urb_tag.exc)
          ELSE IF timestamp.exc # "" THEN Raise(timestamp.exc)
          ELSE IF event_type.exc # "" THEN Raise(event_type.exc)
          ELSE IF type.exc # "" THEN Raise(type.exc)
          ELSE IF direction.exc # "" THEN Raise(direction.exc)
          ELSE IF bus.exc # "" THEN Raise(bus.exc)
          ELSE IF device.exc # "" THEN Raise(device.exc)
          ELSE IF endpoint.exc # "" THEN Raise(endpoint.exc)
          ELSE IF status.exc # "" THEN Raise(status.exc)
          ELSE IF length.exc # "" THEN Raise(length.exc)
          ELSE IF data.exc # "" THEN Raise(data.exc)
          ELSE Ok(Some(UsbEvent(urb_tag.val, timestamp.val, event_type.val, type.val,
                                direction.val, bus.val, device.val, endpoint.val,
                                status.val, length.val, data.val)))
    IN IF line.expr = "None" THEN Ok(None)
       ELSE build(EvalStr(line.urb_tag), EvalInt(line.timestamp), EvalStr(line.event_type),
                  EvalEnum(line.type), EvalEnum(line.direction), EvalInt(line.bus),
                  EvalInt(line.device), EvalInt(line.endpoint), EvalStr(line.status),
                  EvalInt(line.length), EvalData(line.data))

\* load_file(file): the values yielded for the lines of the file in order;
\* exc is the exception that ended the iteration, "" at the end of the file
RECURSIVE load_file(_, _)
load_file(file, acc) ==
    LET next(r) == IF r.exc # "" THEN [exc |-> r.exc, val |-> acc]
                   ELSE load_file(Tail(file), Append(acc, r.val))
    IN IF file = <<>> THEN [exc |-> "", val |-> acc] ELSE next(eval(file[1]))

----------------------------------------------------------------------------
(* parse_usbmon.py: usb_event_stream, then load_file on the saved file *)

MaxLines == 2

\* The lines input() can return
Lines ==
    { \* a bulk outbound completion with data: f1 12 C Bo:1:001:1 0 2 = 0201
      <<"f", "1", " ", "1", "2", " ", "C", " ", "B", "o", ":", "1", ":", "0", "0", "1", ":", "1", " ", "0", " ", "2", " ", "=", " ", "0", "2", "0", "1">>,
      \* a bulk inbound completion, data in two words, a quote in the tag: f' 13 C Bi:1:001:1 0 3 = 0227 41
      <<"f", "'", " ", "1", "3", " ", "C", " ", "B", "i", ":", "1", ":", "0", "0", "1", ":", "1", " ", "0", " ", "3", " ", "=", " ", "0", "2", "2", "7", " ", "4", "1">>,
      \* a submission error without data: f3 14 E Bi:1:2:1 -115 64 <
      <<"f", "3", " ", "1", "4", " ", "E", " ", "B", "i", ":", "1", ":", "2", ":", "1", " ", "-", "1", "1", "5", " ", "6", "4", " ", "<">>,
      \* a pending control submission (status s, setup words follow): f4 15 S Co:1:001:0 s 80 06 0100 0000 0040 64 <
      <<"f", "4", " ", "1", "5", " ", "S", " ", "C", "o", ":", "1", ":", "0", "0", "1", ":", "0", " ", "s", " ", "8", "0", " ", "0", "6", " ", "0", "1", "0", "0", " ", "0", "0", "0", "0", " ", "0", "0", "4", "0", " ", "6", "4", " ", "<">>,
      \* too few fields: f5 16 C Bo:1:001
      <<"f", "5", " ", "1", "6", " ", "C", " ", "B", "o", ":", "1", ":", "0", "0", "1">>,
      \* a type character outside the alphabet: f6 17 C Xo:1:001:1 0 0 <
      <<"f", "6", " ", "1", "7", " ", "C", " ", "X", "o", ":", "1", ":", "0", "0", "1", ":", "1", " ", "0", " ", "0", " ", "<">>,
      \* a direction character taken from the separator: f7 18 C B :1:001:1 0 0 <
      <<"f", "7", " ", "1", "8", " ", "C", " ", "B", " ", ":", "1", ":", "0", "0", "1", ":", "1", " ", "0", " ", "0", " ", "<">>,
      \* a timestamp that is not an integer: f8 1x C Bo:1:001:1 0 2 = 0201
      <<"f", "8", " ", "1", "x", " ", "C", " ", "B", "o", ":", "1", ":", "0", "0", "1", ":", "1", " ", "0", " ", "2", " ", "=", " ", "0", "2", "0", "1">>,
      \* a length that is not an integer: f9 19 C Bi:1:001:1 0 x <
      <<"f", "9", " ", "1", "9", " ", "C", " ", "B", "i", ":", "1", ":", "0", "0", "1", ":", "1", " ", "0", " ", "x", " ", "<">>,
      \* data that is not hexadecimal: fa 20 C Bo:1:001:1 0 1 = 0z
      <<"f", "a", " ", "2", "0", " ", "C", " ", "B", "o", ":", "1", ":", "0", "0", "1", ":", "1", " ", "0", " ", "1", " ", "=", " ", "0", "z">>,
      \* the data tag = with no data: fb 21 C Bo:1:001:1 0 0 =
      <<"f", "b", " ", "2", "1", " ", "C", " ", "B", "o", ":", "1", ":", "0", "0", "1", ":", "1", " ", "0", " ", "0", " ", "=">> }

\* One pass of the loop of usb_event_stream for the line input() returned:
\* parse, mirror repr(event) to the save file when there is one, yield the
\* event when it is not None. UsbMonError is caught and reported; any other
\* exception leaves the generator (and the ExitStack closes the file).
StreamStep(line) ==
    /\ stream_pc = "running"
    /\ Len(lines) < MaxLines
    /\ lines' = Append(lines, line)
    /\ LET parsed(r) ==
             IF r.exc = "UsbMonError"
             THEN /\ reported' = Append(reported, line)
                  /\ UNCHANGED <<saved, delivered, stream_pc>>
             ELSE IF r.exc # ""
             THEN /\ stream_pc' = r.exc
                  /\ UNCHANGED <<saved, delivered, reported>>
             ELSE /\ saved' = IF saved = None THEN None
                              ELSE Some(Append(saved[1], UsbEvent___repr__(r.val)))
                  /\ delivered' = IF r.val = None THEN delivered
                                  ELSE Append(delivered, r.val[1])
                  /\ UNCHANGED <<reported, stream_pc>>
       IN parsed(UsbEvent_from_usbmon(line))
    /\ UNCHANGED <<loaded, mainVars, instVars, regVars>>

ReadLine == \E line \in Lines : StreamStep(line)

\* input() at the end of the input raises EOFError, which leaves the generator
EndOfInput ==
    /\ stream_pc = "running"
    /\ stream_pc' = "EOFError"
    /\ UNCHANGED <<lines, delivered, saved, reported, loaded, mainVars, instVars, regVars>>

\* A later run with --load on the file the ended run saved
LoadSaved ==
    /\ stream_pc \notin {"idle", "running"}
    /\ saved # None
    /\ loaded = None
    /\ loaded' = Some(load_file(saved[1], <<>>))
    /\ UNCHANGED <<lines, delivered, saved, reported, stream_pc, mainVars, instVars, regVars>>

InitStream ==
    /\ request = None /\ output = <<>> /\ pc = "idle" /\ hist = <<>>
    /\ consumed = 0 /\ args_device = None
    /\ lines = <<>> /\ delivered = <<>> /\ reported = <<>>
    /\ saved \in {None, Some(<<>>)}
    /\ loaded = None
    /\ stream_pc = "running"
    /\ inst = None /\ inst_exc = "" /\ inst_in = <<>>
    /\ reg_commands = <<>> /\ reg_map = None /\ reg_lookups = 0

NextStream == ReadLine \/ EndOfInput \/ LoadSaved

SpecStream == InitStream /\ [][NextStream]_vars


----------------------------------------------------------------------------
(* Claims about the line stream *)

\* C4: a line that fails the grammar (no match of the pattern, or a field
\* the conversions refuse with ValueError) is reported as a malformed line,
\* for that line only: the stream stays running for the later lines, and
\* nothing is delivered for the failed line.
C4_MalformedStep ==
    LET line == lines'[Len(lines')] IN
    (Len(lines') = Len(lines) + 1
       /\ UsbEvent_from_usbmon(line).exc \in {"UsbMonError", "ValueError"})
        => /\ stream_pc' = "running"
           /\ reported' = Append(reported, line)
           /\ delivered' = delivered

C4_MalformedLineRecovery == [][C4_MalformedStep]_vars

\* C6: when every line of the input was accepted by the grammar, loading the
\* saved file yields, in order and field by field, the events the stream
\* delivered while saving.
C6_SaveLoadRoundTrip ==
    (loaded # None /\ reported = <<>> /\ stream_pc = "EOFError")
        => /\ loaded[1].exc = ""
           /\ Len(loaded[1].val) = Len(delivered)
           /\ \A i \in 1..Len(delivered) : loaded[1].val[i] = Some(delivered[i])


----------------------------------------------------------------------------
(* One command: Decoder.decode_request constructs it from a request payload,
   DapCommand.attach_response gives it the response payload *)

MaxXfer == 3

\* The sequences over S of length at most n
SeqsUpTo(S, n) == UNION {[1..k -> S] : k \in 0..n}

\* Transfer control bytes: write, read, read with value match, read with
\* match mask, read with timestamp, write with timestamp
ControlBytes == {0, 2, 18, 34, 66, 64}

\* The bytes of one Transfer record with control byte c: a plain read has no
\* value word
RecordBytes(c) ==
    IF Bit(c, 1) /\ ~Bit(c, 4) /\ ~Bit(c, 5) THEN <<c>> ELSE <<c, 120, 86, 52, 18>>

\* k little-endian 32-bit words
Words(k) == Flatten([i \in 1..k |-> <<i, 0, 0, 0>>])

\* Transfer requests: identifier, DAP index, count, then the records
TransferRequests ==
    { <<5, 0, Len(cs)>> \o Flatten([i \in 1..Len(cs) |-> RecordBytes(cs[i])]) :
        cs \in SeqsUpTo(ControlBytes, MaxXfer) }

\* TransferBlock requests: identifier, DAP index, 16-bit count, control byte,
\* then the words of a write block
TransferBlockRequests ==
    { <<6, 0, n, 0, c>> \o (IF Bit(c, 1) THEN <<>> ELSE Words(n)) :
        n \in 0..MaxXfer, c \in {0, 1, 2, 3} }

\* Connect requests: identifier, then the port selector (or nothing)
ConnectRequests == {<<2, p>> : p \in 0..3} \cup {<<2>>}

Requests == TransferRequests \cup TransferBlockRequests \cup ConnectRequests

\* Response payloads: Transfer and TransferBlock responses with k words after
\* the header, a Connect response, and two truncated Transfer responses
Responses ==
    {<<5, k, 1>> \o Words(k) : k \in 0..(MaxXfer + 1)}
        \cup {<<6, k, 0, 1>> \o Words(k) : k \in 0..(MaxXfer + 1)}
        \cup {<<2, 1>>, <<5>>, <<5, 1, 1, 7>>}

\* request = decoder.decode_request(payload)
Construct(payload) ==
    /\ inst_in = <<>>
    /\ LET made(r) ==
             /\ inst' = IF r.exc # "" THEN None ELSE Some(r.val)
             /\ inst_exc' = r.exc
       IN made(Decoder_decode_request(decoder, payload))
    /\ inst_in' = <<payload>>
    /\ UNCHANGED <<mainVars, streamVars, regVars>>

\* request.attach_response(payload)
AttachResponse(payload) ==
    /\ inst # None
    /\ Len(inst_in) = 1
    /\ LET attached(r) ==
             /\ inst' = IF r.exc # "" THEN inst ELSE Some(r.val)
             /\ inst_exc' = r.exc
       IN attached(attach_response(inst[1], payload))
    /\ inst_in' = Append(inst_in, payload)
    /\ UNCHANGED <<mainVars, streamVars, regVars>>

ConstructRequest == \E payload \in Requests : Construct(payload)

AttachToRequest == \E payload \in Responses : AttachResponse(payload)

InitInst ==
    /\ request = None /\ output = <<>> /\ pc = "idle" /\ hist = <<>>
    /\ consumed = 0 /\ args_device = None
    /\ lines = <<>> /\ delivered = <<>> /\ reported = <<>> /\ saved = None
    /\ loaded = None /\ stream_pc = "idle"
    /\ inst = None /\ inst_exc = "" /\ inst_in = <<>>
    /\ reg_commands = <<>> /\ reg_map = None /\ reg_lookups = 0

NextInst == ConstructRequest \/ AttachToRequest

SpecInst == InitInst /\ [][NextInst]_vars

\* C7: the read count set by request decoding is the number of non-write
\* records (Transfer) or the block count of a read block (TransferBlock),
\* and a decoded response holds exactly that many values after its status,
\* all of them taken from the response payload after the header.
C7_ReadCount ==
    inst # None =>
        LET c == inst[1] IN
        /\ c.cls = "Transfer" =>
             /\ c.aux.reads = Cardinality({i \in 2..Len(c.data.v) : c.data.v[i].op # "write"})
             /\ c.response # None =>
                  /\ Len(c.response[1].v) = 1 + c.aux.reads
                  /\ Len(inst_in[2]) >= 3 + 4 * c.aux.reads
        /\ c.cls = "TransferBlock" =>
             /\ c.aux.reads = IF c.data.v[2].op = "read" THEN c.data.v[2].count ELSE 0
             /\ c.response # None =>
                  /\ Len(c.response[1].v) = 1 + c.aux.reads
                  /\ Len(inst_in[2]) >= 4 + 4 * c.aux.reads

\* A Transfer of a write, a value-match read and a plain read, with its
\* response attached
C7_Witness ==
    /\ inst # None
    /\ inst[1].cls = "Transfer"
    /\ Len(inst[1].data.v) = 4
    /\ inst[1].data.v[2].op = "write"
    /\ inst[1].data.v[3].op = "read value"
    /\ inst[1].aux.reads = 2
    /\ inst[1].response # None

\* C8: when any record of a Transfer request asks for a timestamp, attaching
\* a response fails and stores no decoded values, wherever that record is;
\* when no record asks for one, attaching does not fail on the timestamp
\* assertion.
C8_TimestampFailFast ==
    (inst # None /\ Len(inst_in) = 2 /\ inst[1].cls = "Transfer" /\ inst_in[2][1] = 5) =>
        LET c == inst[1]
            any_ts == \E i \in 2..Len(c.data.v) : c.data.v[i].ts
        IN /\ any_ts => (inst_exc # "" /\ c.response = None)
           /\ ~any_ts => inst_exc # "AssertionError"

\* A Transfer of three records, only the first asking for a timestamp, whose
\* response (long enough for its reads) was refused
C8_Witness ==
    /\ inst # None
    /\ Len(inst_in) = 2
    /\ inst[1].cls = "Transfer"
    /\ Len(inst[1].data.v) = 4
    /\ inst[1].data.v[2].ts
    /\ ~inst[1].data.v[3].ts
    /\ ~inst[1].data.v[4].ts
    /\ inst_in[2][1] = 5
    /\ Len(inst_in[2]) >= 3 + 4 * inst[1].aux.reads
    /\ inst_exc = "AssertionError"
    /\ inst[1].response = None

\* C9: a Connect request whose payload after the identifier is the single
\* port selector p in {0, 1, 2} decodes to the port named by p.
C9_ConnectRequestPort ==
    (inst # None /\ inst[1].cls = "Connect" /\ Len(inst_in[1]) = 2 /\ inst_in[1][2] \in {0, 1, 2}) =>
        inst[1].data = [t |-> "enum",
                        name |-> CASE inst_in[1][2] = 0 -> "Default"
                                   [] inst_in[1][2] = 1 -> "SWD"
                                   [] inst_in[1][2] = 2 -> "JTAG"]

----------------------------------------------------------------------------
(* commands.py: Decoder(commands...), then look-ups in the built registry *)

MaxCommands == 3
MaxLookups == 2

\* The classes a caller may register: three of the program's, and two other
\* subclasses of DapCommand that take the identifiers of Connect and Disconnect
Descriptors ==
    { [name |-> "Connect", COMMAND_ID |-> 2],
      [name |-> "Disconnect", COMMAND_ID |-> 3],
      [name |-> "Delay", COMMAND_ID |-> 9],
      [name |-> "OtherConnect", COMMAND_ID |-> 2],
      [name |-> "OtherDisconnect", COMMAND_ID |-> 3] }

\* decoder = Decoder(commands...): the constructor has no failing path
BuildRegistry ==
    /\ reg_map = None
    /\ \E commands \in SeqsUpTo(Descriptors, MaxCommands) :
         /\ reg_commands' = commands
         /\ reg_map' = Some(Decoder___init__(commands))
    /\ UNCHANGED <<reg_lookups, mainVars, streamVars, instVars>>

\* decoder.decode_request(payload) on the built registry
Lookup ==
    /\ reg_map # None
    /\ reg_lookups < MaxLookups
    /\ \E payload \in {<<2, 1>>, <<3>>, <<9, 1, 0>>} :
         LET made(r) ==
               /\ inst' = IF r.exc # "" THEN None ELSE Some(r.val)
               /\ inst_exc' = r.exc
               /\ inst_in' = <<payload>>
         IN made(Decoder_decode_request(reg_map[1], payload))
    /\ reg_lookups' = reg_lookups + 1
    /\ UNCHANGED <<reg_commands, reg_map, mainVars, streamVars>>

InitReg == InitInst

NextReg == BuildRegistry \/ Lookup

SpecReg == InitReg /\ [][NextReg]_vars

\* C10: a registry is never built from a descriptor list in which two
\* descriptors have the same command identifier.
C10_DuplicateIdsRejected ==
    reg_map # None =>
        \A i, j \in DOMAIN reg_commands :
            reg_commands[i].COMMAND_ID = reg_commands[j].COMMAND_ID => i = j

====
